---- MODULE Spec2Model ----
(***************************************************************************)
(* A model of ShapeShifter's SVG path parser / serializer                  *)
(* (src/app/scripts/svg/pathparser.ts) and of its path compatibility fixer *)
(* (src/app/scripts/algorithms/AutoAwesome.ts).                            *)
(*                                                                         *)
(* A path string is a sequence of one-character strings.  A number is an   *)
(* integer counting 10^-(FixedDigits+1) units (so 1.5 is 15000), or NaN.   *)
(***************************************************************************)
EXTENDS Integers, Sequences, FiniteSets, TLC

VARIABLES
    \* ---- parseCommands: its locals, and the caller's position ----
    inputString,          \* the string the caller first handed to parseCommands
    pathString,           \* the argument of the running parseCommands call
    index,                \* let index = 0 (a 0-based offset into pathString)
    currentToken,         \* let currentToken: Token
    currentPoint,         \* let currentPoint: Point
    currentControlPoint,  \* let currentControlPoint: Point
    lastMovePoint,        \* let lastMovePoint: Point
    commands,             \* const commands: DrawCommand[]
    lastChar,             \* the command letter of the last loop iteration
    pstatus,              \* "parsing" | "returned" | "threw" | "serialized"
    perror,               \* the message of the Error thrown, "" if none
    pass,                 \* 1: parsing inputString, 2: parsing the serializer's output
    firstCommands,        \* the commands the first pass returned
    \* ---- autoFix and autoFixSubPath: parameters, locals, position ----
    canConvert,           \* the pairs <<kind, svgChar>> for which canConvertTo holds
    fromPath,             \* autoFix's fromPath
    toPath,               \* autoFix's toPath
    subIdx,               \* the subpath under repair
    numFromCmds,          \* const numFromCmds
    numToCmds,            \* const numToCmds
    from,                 \* autoFixSubPath's from
    to,                   \* autoFixSubPath's to
    fromPaths,            \* const fromPaths
    alignmentInfos,       \* const alignmentInfos
    chosen,               \* the position in alignmentInfos of alignmentInfo
    alignmentInfo,        \* const alignmentInfo
    fromPathResult,       \* const fromPathResult
    toPathResult,         \* const toPathResult
    result,               \* what autoFixSubPath returned: [from, to]
    pc,                   \* the statement the fixer is at
    caller,               \* "autoFix", or "twice": autoFixSubPath run on its own output
    round,                \* the number of the running autoFixSubPath call
    firstResult           \* what the first of two autoFixSubPath calls returned

pvars == <<inputString, pathString, index, currentToken, currentPoint,
           currentControlPoint, lastMovePoint, commands, lastChar, pstatus,
           perror, pass, firstCommands>>

fvars == <<canConvert, fromPath, toPath, subIdx, numFromCmds, numToCmds, from,
           to, fromPaths, alignmentInfos, chosen, alignmentInfo, fromPathResult,
           toPathResult, result, pc, caller, round, firstResult>>

vars == <<pvars, fvars>>

-----------------------------------------------------------------------------
(* Bounds of the model *)

\* The number of pieces an input path string is put together from.
MaxPieces == 3

\* The largest number of commands of a path handed to the fixer
MaxCmds == 3

\* The largest coordinate of a point of such a path
MaxCoord == 6

-----------------------------------------------------------------------------
(* Numbers *)

\* commandsToString rounds with n.toFixed(3)
FixedDigits == 3

\* One unit of the model's numbers is 10^-(FixedDigits+1).
Scale == 10 ^ (FixedDigits + 1)

\* parseFloat's NaN (a value no input reaches by arithmetic)
NaN == -2000000000

IsNaN(v) == v = NaN

\* x + y of two doubles
Add(a, b) == IF IsNaN(a) \/ IsNaN(b) THEN NaN ELSE a + b

\* x - y of two doubles
Sub(a, b) == IF IsNaN(a) \/ IsNaN(b) THEN NaN ELSE a - b

Abs(v) == IF v < 0 THEN -v ELSE v

DigitChars == <<"0", "1", "2", "3", "4", "5", "6", "7", "8", "9">>

LowerLetters == {"a", "b", "c", "d", "e", "f", "g", "h", "i", "j", "k", "l", "m",
                 "n", "o", "p", "q", "r", "s", "t", "u", "v", "w", "x", "y", "z"}

UpperLetters == {"A", "B", "C", "D", "E", "F", "G", "H", "I", "J", "K", "L", "M",
                 "N", "O", "P", "Q", "R", "S", "T", "U", "V", "W", "X", "Y", "Z"}

\* '0' <= c && c <= '9'
IsDigit(c) == \E i \in 1..10 : DigitChars[i] = c

DigitValue(c) == (CHOOSE i \in 1..10 : DigitChars[i] = c) - 1

\* The offset just past the run of digits of s that starts at position i.
RECURSIVE DigitsEnd(_, _)
DigitsEnd(s, i) ==
    IF i <= Len(s) /\ IsDigit(s[i]) THEN DigitsEnd(s, i + 1) ELSE i

\* The natural number the digits s[i] .. s[j-1] write.
RECURSIVE NatOf(_, _, _)
NatOf(s, i, j) ==
    IF i >= j THEN 0 ELSE NatOf(s, i, j - 1) * 10 + DigitValue(s[j - 1])

\* The fraction digits s[i] .. s[j-1] in units: the k-th digit counts
\* 10^(FixedDigits+1-k); digits past the last unit are dropped.
RECURSIVE FracOf(_, _, _, _)
FracOf(s, i, j, k) ==
    IF i >= j \/ k > FixedDigits + 1 THEN 0
    ELSE DigitValue(s[i]) * 10 ^ (FixedDigits + 1 - k) + FracOf(s, i + 1, j, k + 1)

\* -v of a double
Negate(v) == IF IsNaN(v) THEN NaN ELSE -v

\* mant * 10^exp, exp being written by the digits s[e0] .. s[e1-1]; without a
\* digit there is no exponent part
ApplyExponent(mant, s, e0, e1, eNeg) ==
    IF e1 = e0 THEN mant
    ELSE IF eNeg THEN mant \div (10 ^ NatOf(s, e0, e1))
    ELSE mant * (10 ^ NatOf(s, e0, e1))

\* The exponent part, if any, starts at position f1
ParseExponent(mant, s, f1) ==
    IF f1 <= Len(s) /\ s[f1] = "e"
    THEN IF f1 + 1 <= Len(s) /\ s[f1 + 1] = "-"
         THEN ApplyExponent(mant, s, f1 + 2, DigitsEnd(s, f1 + 2), TRUE)
         ELSE ApplyExponent(mant, s, f1 + 1, DigitsEnd(s, f1 + 1), FALSE)
    ELSE mant

\* Integer digits s[i0] .. s[i1-1], fraction digits s[f0] .. s[f1-1]
ParseMantissa(s, i0, i1, f0, f1) ==
    IF (i1 - i0) + (f1 - f0) = 0 THEN NaN
    ELSE ParseExponent(NatOf(s, i0, i1) * Scale + FracOf(s, f0, f1, 1), s, f1)

ParseFraction(s, i0, i1) ==
    IF i1 <= Len(s) /\ s[i1] = "."
    THEN ParseMantissa(s, i0, i1, i1 + 1, DigitsEnd(s, i1 + 1))
    ELSE ParseMantissa(s, i0, i1, i1, i1)

\* parseFloat(str): the longest prefix that is a decimal literal
\* [-] digits [. digits] [e [-] digits]; NaN when it has no mantissa digit.
ParseFloat(s) ==
    IF Len(s) >= 1 /\ s[1] = "-"
    THEN Negate(ParseFraction(s, 2, DigitsEnd(s, 2)))
    ELSE ParseFraction(s, 1, DigitsEnd(s, 1))

\* The decimal digits of the natural number n.
RECURSIVE NatToChars(_)
NatToChars(n) ==
    IF n < 10 THEN <<DigitChars[n + 1]>>
    ELSE NatToChars(n \div 10) \o <<DigitChars[(n % 10) + 1]>>

\* The digits of the fraction f / 10^width, without trailing zeros.
RECURSIVE FracToChars(_, _)
FracToChars(f, width) ==
    IF f = 0 \/ width = 0 THEN <<>>
    ELSE <<DigitChars[(f \div (10 ^ (width - 1))) + 1]>>
         \o FracToChars(f % (10 ^ (width - 1)), width - 1)

\* Number.prototype.toString of v = u / 10^width (no exponent form arises: a
\* non-zero |v| is at least 10^-width > 1e-7 and below 1e21).
NumberToString(u, width) ==
    IF IsNaN(u) THEN <<"N", "a", "N">>
    ELSE (IF u < 0 THEN <<"-">> ELSE <<>>)
         \o NatToChars(Abs(u) \div (10 ^ width))
         \o (IF Abs(u) % (10 ^ width) = 0 THEN <<>>
             ELSE <<".">> \o FracToChars(Abs(u) % (10 ^ width), width))

\* n.toFixed(3), read back by Number(...): the nearest multiple of 10^-3, a
\* tie going away from zero, counted in 10^-3.
ToFixed(v) ==
    IF IsNaN(v) THEN NaN
    ELSE IF v < 0 THEN -((Abs(v) + 5) \div 10)
    ELSE (v + 5) \div 10

\* Number(n.toFixed(3)).toString()
FormatFixed(v) == NumberToString(ToFixed(v), FixedDigits)

\* n.toString() of an unrounded number (the arc's arguments)
FormatRaw(v) == NumberToString(v, FixedDigits + 1)

-----------------------------------------------------------------------------
(* Points and draw commands *)

\* undefined / null: no point
NoPoint == <<>>

Point(x, y) == <<x, y>>

\* new MoveCommand(start, end)
MoveCommand(start, end) ==
    [svgChar |-> "M", points |-> <<start, end>>, args |-> <<>>]

\* new LineCommand(start, end)
LineCommand(start, end) ==
    [svgChar |-> "L", points |-> <<start, end>>, args |-> <<>>]

\* new QuadraticCurveCommand(start, cp, end)
QuadraticCurveCommand(start, cp, end) ==
    [svgChar |-> "Q", points |-> <<start, cp, end>>, args |-> <<>>]

\* new BezierCurveCommand(start, cp1, cp2, end)
BezierCurveCommand(start, cp1, cp2, end) ==
    [svgChar |-> "C", points |-> <<start, cp1, cp2, end>>, args |-> <<>>]

\* new EllipticalArcCommand(startX, startY, rx, ry, rot, large, sweep, endX, endY)
EllipticalArcCommand(a) ==
    [svgChar |-> "A", points |-> <<Point(a[1], a[2]), Point(a[8], a[9])>>,
     args |-> a]

\* new ClosePathCommand(start, end)
ClosePathCommand(start, end) ==
    [svgChar |-> "Z", points |-> <<start, end>>, args |-> <<>>]

StartOf(cmd) == cmd.points[1]

EndOf(cmd) == cmd.points[Len(cmd.points)]

-----------------------------------------------------------------------------
(* parseCommands.  Its locals are gathered in a record st:                 *)
(* pathString, index, currentToken, currentPoint, currentControlPoint,     *)
(* lastMovePoint, commands, and error (the Error thrown, "" if none).      *)

\* pathString.charAt(i) for a 0-based offset i
CharAt(s, i) == s[i + 1]

\* The first offset at or after i that holds a command letter or the start of
\* a value; Len(s) when there is none ("skip unrecognized character").
RECURSIVE SkipUnrecognized(_, _)
SkipUnrecognized(s, i) ==
    IF i < Len(s)
       /\ CharAt(s, i) \notin LowerLetters
       /\ CharAt(s, i) \notin UpperLetters
       /\ ~IsDigit(CharAt(s, i))
       /\ CharAt(s, i) # "."
       /\ CharAt(s, i) # "-"
    THEN SkipUnrecognized(s, i + 1)
    ELSE i

\* The token that starts at offset i, where no unrecognized character is
TokenAt(s, i) ==
    IF i >= Len(s) THEN "EOF"
    ELSE IF CharAt(s, i) \in LowerLetters THEN "RelativeCommand"
    ELSE IF CharAt(s, i) \in UpperLetters THEN "AbsoluteCommand"
    ELSE "Value"

AdvanceTo(st, i) ==
    [st EXCEPT !.index = i, !.currentToken = TokenAt(st.pathString, i)]

advanceToNextToken_(st) ==
    AdvanceTo(st, SkipUnrecognized(st.pathString, st.index))

\* consumeCommand_ once advanceToNextToken_ has led to a
ConsumeCommandAt(a) ==
    IF a.currentToken # "RelativeCommand" /\ a.currentToken # "AbsoluteCommand"
    THEN [a EXCEPT !.error = "Expected command"]
    ELSE [a EXCEPT !.index = @ + 1]

\* The state after consumeCommand_; the letter it returns is
\* CharAt(st.pathString, result.index - 1).
consumeCommand_(st) == ConsumeCommandAt(advanceToNextToken_(st))

\* The offset at which the value starting at tempIndex ends.
RECURSIVE ScanValue(_, _, _, _)
ScanValue(s, tempIndex, start, seenDot) ==
    IF tempIndex >= Len(s) THEN tempIndex
    ELSE IF /\ ~IsDigit(CharAt(s, tempIndex))
            /\ (CharAt(s, tempIndex) # "." \/ seenDot)
            /\ (CharAt(s, tempIndex) # "-" \/ ~start)
            /\ CharAt(s, tempIndex) # "e"
    THEN tempIndex
    ELSE ScanValue(s, tempIndex + 1, CharAt(s, tempIndex) = "e",
                   seenDot \/ CharAt(s, tempIndex) = ".")

\* The value pathString.substring(index, tempIndex) is consumed
ConsumeValueTo(a, tempIndex) ==
    IF tempIndex = a.index
    THEN [st |-> [a EXCEPT !.error = "Expected value"], val |-> NaN]
    ELSE [st |-> [a EXCEPT !.index = tempIndex],
          val |-> ParseFloat(SubSeq(a.pathString, a.index + 1, tempIndex))]

\* consumeValue_ once advanceToNextToken_ has led to a
ConsumeValueAt(a) ==
    IF a.currentToken # "Value"
    THEN [st |-> [a EXCEPT !.error = "Expected value"], val |-> NaN]
    ELSE ConsumeValueTo(a, ScanValue(a.pathString, a.index, TRUE, FALSE))

\* consumeValue_: [st |-> the state after it, val |-> the number returned]
consumeValue_(st) == ConsumeValueAt(advanceToNextToken_(st))

\* consumePoint_ once consumeValue_ gave x and then y
PointOf(st, x, y, relative) ==
    IF y.st.error # "" THEN [st |-> y.st, pt |-> NoPoint]
    ELSE [st |-> y.st,
          pt |-> IF relative
                 THEN Point(Add(x.val, st.currentPoint[1]),
                            Add(y.val, st.currentPoint[2]))
                 ELSE Point(x.val, y.val)]

ConsumeY(st, x, relative) ==
    IF x.st.error # "" THEN [st |-> x.st, pt |-> NoPoint]
    ELSE PointOf(st, x, consumeValue_(x.st), relative)

\* consumePoint_(relative): [st, pt]
consumePoint_(st, relative) == ConsumeY(st, consumeValue_(st), relative)

\* n calls of consumePoint_(relative) in a row: [st, pts]
RECURSIVE ConsumePoints(_, _, _)
PrependPoint(pt, r) == [st |-> r.st, pts |-> <<pt>> \o r.pts]

MorePoints(p, relative, n) ==
    IF p.st.error # "" THEN [st |-> p.st, pts |-> <<>>]
    ELSE PrependPoint(p.pt, ConsumePoints(p.st, relative, n))

ConsumePoints(st, relative, n) ==
    IF n = 0 THEN [st |-> st, pts |-> <<>>]
    ELSE MorePoints(consumePoint_(st, relative), relative, n - 1)

\* n calls of consumeValue_ in a row: [st, vals]
RECURSIVE ConsumeValues(_, _)
PrependValue(val, r) == [st |-> r.st, vals |-> <<val>> \o r.vals]

MoreValues(v, n) ==
    IF v.st.error # "" THEN [st |-> v.st, vals |-> <<>>]
    ELSE PrependValue(v.val, ConsumeValues(v.st, n))

ConsumeValues(st, n) ==
    IF n = 0 THEN [st |-> st, vals |-> <<>>]
    ELSE MoreValues(consumeValue_(st), n - 1)

\* The reflection of currentControlPoint through currentPoint
Reflect(st) ==
    Point(Add(st.currentPoint[1], Sub(st.currentPoint[1], st.currentControlPoint[1])),
          Add(st.currentPoint[2], Sub(st.currentPoint[2], st.currentControlPoint[2])))

\* The first control point of an S/s segment whose second control point is cp2
SmoothCp1(st, cp2) ==
    IF st.currentControlPoint # NoPoint THEN Reflect(st) ELSE cp2

\* The control point of a T/t segment that ends at end
SmoothCp(st, end) ==
    IF st.currentControlPoint # NoPoint THEN Reflect(st) ELSE end

\* case 'M', 'm': one point, a being the state at its first value and p what
\* consumePoint_ gave
SegmentM(a, p, isFirstPoint) ==
    IF p.st.error # "" THEN p.st
    ELSE [p.st EXCEPT !.commands = Append(@, IF isFirstPoint
                                             THEN MoveCommand(a.currentPoint, p.pt)
                                             ELSE LineCommand(a.currentPoint, p.pt)),
                      !.lastMovePoint = IF isFirstPoint THEN p.pt ELSE @,
                      !.currentControlPoint = NoPoint,
                      !.currentPoint = p.pt]

RECURSIVE LoopM(_, _, _)
LoopMAt(a, relative, isFirstPoint) ==
    IF a.currentToken # "Value" THEN a
    ELSE LoopM(SegmentM(a, consumePoint_(a, relative), isFirstPoint), relative, FALSE)

\* while (advanceToNextToken_() === Token.Value) (a throw ends it)
LoopM(st, relative, isFirstPoint) ==
    IF st.error # "" THEN st
    ELSE LoopMAt(advanceToNextToken_(st), relative, isFirstPoint)

CaseM(st, relative) ==
    IF relative /\ st.currentPoint = NoPoint
    THEN [st EXCEPT !.error = "Current point must be set for a relative command"]
    ELSE LoopM(st, relative, TRUE)

\* case 'C', 'c': one segment, a being the state at its first value and
\* p what consuming its points gave
SegmentC(a, p) ==
    IF p.st.error # "" THEN p.st
    ELSE [p.st EXCEPT !.commands = Append(@, BezierCurveCommand(a.currentPoint, p.pts[1], p.pts[2], p.pts[3])),
                      !.currentControlPoint = p.pts[2],
                      !.currentPoint = p.pts[3]]

RECURSIVE LoopC(_, _)
LoopCAt(a, relative) ==
    IF a.currentToken # "Value" THEN a
    ELSE LoopC(SegmentC(a, ConsumePoints(a, relative, 3)), relative)

\* while (advanceToNextToken_() === Token.Value) (a throw ends it)
LoopC(st, relative) ==
    IF st.error # "" THEN st ELSE LoopCAt(advanceToNextToken_(st), relative)

CaseC(st, relative) ==
    IF st.currentPoint = NoPoint
    THEN [st EXCEPT !.error = "Current point does not exist"]
    ELSE LoopC(st, relative)

\* case 'S', 's': one segment, a being the state at its first value and
\* p what consuming its points gave
SegmentS(a, p) ==
    IF p.st.error # "" THEN p.st
    ELSE [p.st EXCEPT !.commands = Append(@, BezierCurveCommand(a.currentPoint, SmoothCp1(a, p.pts[1]), p.pts[1], p.pts[2])),
                      !.currentControlPoint = p.pts[1],
                      !.currentPoint = p.pts[2]]

RECURSIVE LoopS(_, _)
LoopSAt(a, relative) ==
    IF a.currentToken # "Value" THEN a
    ELSE LoopS(SegmentS(a, ConsumePoints(a, relative, 2)), relative)

\* while (advanceToNextToken_() === Token.Value) (a throw ends it)
LoopS(st, relative) ==
    IF st.error # "" THEN st ELSE LoopSAt(advanceToNextToken_(st), relative)

CaseS(st, relative) ==
    IF st.currentPoint = NoPoint
    THEN [st EXCEPT !.error = "Current point does not exist"]
    ELSE LoopS(st, relative)

\* case 'Q', 'q': one segment, a being the state at its first value and
\* p what consuming its points gave
SegmentQ(a, p) ==
    IF p.st.error # "" THEN p.st
    ELSE [p.st EXCEPT !.commands = Append(@, QuadraticCurveCommand(a.currentPoint, p.pts[1], p.pts[2])),
                      !.currentControlPoint = p.pts[1],
                      !.currentPoint = p.pts[2]]

RECURSIVE LoopQ(_, _)
LoopQAt(a, relative) ==
    IF a.currentToken # "Value" THEN a
    ELSE LoopQ(SegmentQ(a, ConsumePoints(a, relative, 2)), relative)

\* while (advanceToNextToken_() === Token.Value) (a throw ends it)
LoopQ(st, relative) ==
    IF st.error # "" THEN st ELSE LoopQAt(advanceToNextToken_(st), relative)

CaseQ(st, relative) ==
    IF st.currentPoint = NoPoint
    THEN [st EXCEPT !.error = "Current point does not exist"]
    ELSE LoopQ(st, relative)

\* case 'T', 't': one segment, a being the state at its first value and
\* p what consuming its points gave
SegmentT(a, p) ==
    IF p.st.error # "" THEN p.st
    ELSE [p.st EXCEPT !.commands = Append(@, QuadraticCurveCommand(a.currentPoint, SmoothCp(a, p.pts[1]), p.pts[1])),
                      !.currentControlPoint = SmoothCp(a, p.pts[1]),
                      !.currentPoint = p.pts[1]]

RECURSIVE LoopT(_, _)
LoopTAt(a, relative) ==
    IF a.currentToken # "Value" THEN a
    ELSE LoopT(SegmentT(a, ConsumePoints(a, relative, 1)), relative)

\* while (advanceToNextToken_() === Token.Value) (a throw ends it)
LoopT(st, relative) ==
    IF st.error # "" THEN st ELSE LoopTAt(advanceToNextToken_(st), relative)

CaseT(st, relative) ==
    IF st.currentPoint = NoPoint
    THEN [st EXCEPT !.error = "Current point does not exist"]
    ELSE LoopT(st, relative)

\* case 'L', 'l': one segment, a being the state at its first value and
\* p what consuming its points gave
SegmentL(a, p) ==
    IF p.st.error # "" THEN p.st
    ELSE [p.st EXCEPT !.commands = Append(@, LineCommand(a.currentPoint, p.pts[1])),
                      !.currentControlPoint = NoPoint,
                      !.currentPoint = p.pts[1]]

RECURSIVE LoopL(_, _)
LoopLAt(a, relative) ==
    IF a.currentToken # "Value" THEN a
    ELSE LoopL(SegmentL(a, ConsumePoints(a, relative, 1)), relative)

\* while (advanceToNextToken_() === Token.Value) (a throw ends it)
LoopL(st, relative) ==
    IF st.error # "" THEN st ELSE LoopLAt(advanceToNextToken_(st), relative)

CaseL(st, relative) ==
    IF st.currentPoint = NoPoint
    THEN [st EXCEPT !.error = "Current point does not exist"]
    ELSE LoopL(st, relative)

\* case 'H', 'h': one segment, v being what consumeValue_ gave
SegmentH(a, v, relative) ==
    IF v.st.error # "" THEN v.st
    ELSE [v.st EXCEPT
            !.commands = Append(@, LineCommand(a.currentPoint,
                Point(IF relative THEN Add(v.val, a.currentPoint[1]) ELSE v.val,
                      a.currentPoint[2]))),
            !.currentControlPoint = NoPoint,
            !.currentPoint =
                Point(IF relative THEN Add(v.val, a.currentPoint[1]) ELSE v.val,
                      a.currentPoint[2])]

RECURSIVE LoopH(_, _)
LoopHAt(a, relative) ==
    IF a.currentToken # "Value" THEN a
    ELSE LoopH(SegmentH(a, consumeValue_(a), relative), relative)

LoopH(st, relative) ==
    IF st.error # "" THEN st ELSE LoopHAt(advanceToNextToken_(st), relative)

CaseH(st, relative) ==
    IF st.currentPoint = NoPoint
    THEN [st EXCEPT !.error = "Current point does not exist"]
    ELSE LoopH(st, relative)

\* case 'V', 'v': one segment, v being what consumeValue_ gave
SegmentV(a, v, relative) ==
    IF v.st.error # "" THEN v.st
    ELSE [v.st EXCEPT
            !.commands = Append(@, LineCommand(a.currentPoint,
                Point(a.currentPoint[1],
                      IF relative THEN Add(v.val, a.currentPoint[2]) ELSE v.val))),
            !.currentControlPoint = NoPoint,
            !.currentPoint =
                Point(a.currentPoint[1],
                      IF relative THEN Add(v.val, a.currentPoint[2]) ELSE v.val)]

RECURSIVE LoopV(_, _)
LoopVAt(a, relative) ==
    IF a.currentToken # "Value" THEN a
    ELSE LoopV(SegmentV(a, consumeValue_(a), relative), relative)

LoopV(st, relative) ==
    IF st.error # "" THEN st ELSE LoopVAt(advanceToNextToken_(st), relative)

CaseV(st, relative) ==
    IF st.currentPoint = NoPoint
    THEN [st EXCEPT !.error = "Current point does not exist"]
    ELSE LoopV(st, relative)

\* case 'A', 'a': one segment, v being the five values and p the end point
SegmentA(a, v, p) ==
    IF p.st.error # "" THEN p.st
    ELSE [p.st EXCEPT
            !.commands = Append(@, EllipticalArcCommand(
                                      <<a.currentPoint[1], a.currentPoint[2]>>
                                      \o v.vals \o <<p.pt[1], p.pt[2]>>)),
            !.currentControlPoint = NoPoint,
            !.currentPoint = p.pt]

ArcEnd(a, v, relative) ==
    IF v.st.error # "" THEN v.st
    ELSE SegmentA(a, v, consumePoint_([v.st EXCEPT !.currentPoint = a.currentPoint],
                                      relative))

RECURSIVE LoopA(_, _)
LoopAAt(a, relative) ==
    IF a.currentToken # "Value" THEN a
    ELSE LoopA(ArcEnd(a, ConsumeValues(a, 5), relative), relative)

LoopA(st, relative) ==
    IF st.error # "" THEN st ELSE LoopAAt(advanceToNextToken_(st), relative)

CaseA(st, relative) ==
    IF st.currentPoint = NoPoint
    THEN [st EXCEPT !.error = "Current point does not exist"]
    ELSE LoopA(st, relative)

\* case 'Z', 'z'
CaseZ(st) ==
    IF st.currentPoint = NoPoint
    THEN [st EXCEPT !.error = "Current point does not exist"]
    ELSE [st EXCEPT !.commands = Append(@, ClosePathCommand(st.currentPoint,
                                                          st.lastMovePoint))]

\* The letters the switch has a case for
CaseLetters == {"M", "m", "C", "c", "S", "s", "Q", "q", "T", "t", "L", "l",
                "H", "h", "V", "v", "A", "a", "Z", "z"}

\* switch (commandChar), entered with the state after consumeCommand_
Switch(st, commandChar, relative) ==
    CASE commandChar \in {"M", "m"} -> CaseM(st, relative)
      [] commandChar \in {"C", "c"} -> CaseC(st, relative)
      [] commandChar \in {"S", "s"} -> CaseS(st, relative)
      [] commandChar \in {"Q", "q"} -> CaseQ(st, relative)
      [] commandChar \in {"T", "t"} -> CaseT(st, relative)
      [] commandChar \in {"L", "l"} -> CaseL(st, relative)
      [] commandChar \in {"H", "h"} -> CaseH(st, relative)
      [] commandChar \in {"V", "v"} -> CaseV(st, relative)
      [] commandChar \in {"A", "a"} -> CaseA(st, relative)
      [] commandChar \in {"Z", "z"} -> CaseZ(st)
      [] OTHER -> st

\* The letter consumeCommand_ returned when it led to c
CommandCharOf(c) == CharAt(c.pathString, c.index - 1)

\* The loop's body once consumeCommand_ has led to c
LoopBodyAt(c) ==
    IF c.error # "" THEN c
    ELSE Switch(c, CommandCharOf(c), c.currentToken = "RelativeCommand")

\* One iteration of while (index < pathString.length)
LoopBody(st) == LoopBodyAt(consumeCommand_(st))

\* The locals of parseCommands(pathString) before its loop
StartState(s) ==
    [pathString |-> s, index |-> 0, currentToken |-> "EOF",
     currentPoint |-> NoPoint, currentControlPoint |-> NoPoint,
     lastMovePoint |-> NoPoint, commands |-> <<>>, error |-> ""]

RECURSIVE RunLoop(_)
RunLoop(st) ==
    IF st.error # "" \/ st.index >= Len(st.pathString) THEN st
    ELSE RunLoop(LoopBody(st))

\* parseCommands(s) without matrices: [commands, error]; error # "" when it throws
parseCommands(s) == RunLoop(StartState(s))

\* cmd.args.slice(2), spliced in as ONE token: join renders the array
\* comma-separated, its numbers unrounded
RECURSIVE ArcArgs(_, _)
ArcArgs(args, k) ==
    IF k > Len(args) THEN <<>>
    ELSE (IF k > 3 THEN <<",">> ELSE <<>>) \o FormatRaw(args[k]) \o ArcArgs(args, k + 1)

\* pointsToNumberListFunc(...cmd.points.slice(1)), each number formatted
RECURSIVE PointArgs(_, _)
PointArgs(points, k) ==
    IF k > Len(points) THEN <<>>
    ELSE <<FormatFixed(points[k][1]), FormatFixed(points[k][2])>>
         \o PointArgs(points, k + 1)

\* The tokens commandsToString pushes for one command
CommandTokens(cmd) ==
    IF cmd.svgChar = "A" THEN <<<<cmd.svgChar>>, ArcArgs(cmd.args, 3)>>
    ELSE IF cmd.svgChar = "Z" THEN <<<<cmd.svgChar>>>>
    ELSE <<<<cmd.svgChar>>>> \o PointArgs(cmd.points, 2)

\* tokens.join(' ')
RECURSIVE Join(_)
Join(tokens) ==
    IF Len(tokens) = 0 THEN <<>>
    ELSE IF Len(tokens) = 1 THEN tokens[1]
    ELSE tokens[1] \o <<" ">> \o Join(Tail(tokens))

RECURSIVE AllTokens(_)
AllTokens(cmds) ==
    IF Len(cmds) = 0 THEN <<>> ELSE CommandTokens(cmds[1]) \o AllTokens(Tail(cmds))

commandsToString(cmds) == Join(AllTokens(cmds))

-----------------------------------------------------------------------------
(* The input path strings: every concatenation of at most MaxPieces pieces *)

PieceMove == <<"M", "0", " ", "0">>
PieceMoveLine == <<"M", "6", " ", "0", " ", "6", " ", "6">>
PieceMoveRel == <<"m", "6", " ", "6">>
PieceLine == <<"L", "6", " ", "0">>
PieceLineRel == <<"l", "1", ".", "0", "0", "0", "4", " ", "-", ".", "0", "0", "0", "6">>
PieceH == <<"H", "3">>
PieceHRel == <<"h", "3">>
PieceV == <<"V", "3">>
PieceVRel == <<"v", "-", "3">>
PieceC == <<"C", "1", " ", "1", " ", "2", " ", "2", " ", "3", " ", "3">>
PieceCRel == <<"c", "1", " ", "1", " ", "2", " ", "2", " ", "3", " ", "3">>
PieceS == <<"S", "4", " ", "4", " ", "6", " ", "6">>
PieceSRel == <<"s", "1", " ", "1", " ", "2", " ", "2">>
PieceQ == <<"Q", "1", " ", "1", " ", "2", " ", "2">>
PieceQRel == <<"q", "1", " ", "1", " ", "2", " ", "2">>
PieceT == <<"T", "5", " ", "5">>
PieceTRel == <<"t", "5", " ", "5">>
PieceA == <<"A", "1", " ", "1", " ", "0", " ", "0", " ", "1", " ", "5", " ", "5">>
PieceARel == <<"a", "1", " ", "1", " ", "0", " ", "0", " ", "1", " ", "5", " ", "5">>
PieceZ == <<"Z">>
PieceZRel == <<"z">>
PieceUnknown == <<"X">>
PieceSpace == <<" ">>
PieceComma == <<",">>
PieceMoveNaN == <<"M", " ", "-", " ", "-">>
PieceLineExp == <<"L", "1", "e", "1", " ", "0">>
PieceLineShort == <<"L", "6">>
PiecePoint == <<" ", "6", " ", "6">>

Pieces == {PieceMove,
           PieceMoveLine,
           PieceMoveRel,
           PieceLine,
           PieceLineRel,
           PieceH,
           PieceHRel,
           PieceV,
           PieceVRel,
           PieceC,
           PieceCRel,
           PieceS,
           PieceSRel,
           PieceQ,
           PieceQRel,
           PieceT,
           PieceTRel,
           PieceA,
           PieceARel,
           PieceZ,
           PieceZRel,
           PieceUnknown,
           PieceSpace,
           PieceComma,
           PieceMoveNaN,
           PieceLineExp,
           PieceLineShort,
           PiecePoint}

RECURSIVE Concatenations(_)
Concatenations(n) ==
    IF n = 0 THEN {<<>>}
    ELSE LET shorter == Concatenations(n - 1)
         IN  shorter \cup {s \o p : s \in shorter, p \in Pieces}

PathStrings == Concatenations(MaxPieces)

-----------------------------------------------------------------------------
(* The parser as a state machine: one action per case of the switch *)

\* The locals of the running call, as the record the operators work on
Locals ==
    [pathString |-> pathString, index |-> index, currentToken |-> currentToken,
     currentPoint |-> currentPoint, currentControlPoint |-> currentControlPoint,
     lastMovePoint |-> lastMovePoint, commands |-> commands, error |-> ""]

\* The locals become those of r; the call ends when r threw
SetLocals(r) ==
    /\ index' = r.index
    /\ currentToken' = r.currentToken
    /\ currentPoint' = r.currentPoint
    /\ currentControlPoint' = r.currentControlPoint
    /\ lastMovePoint' = r.lastMovePoint
    /\ commands' = r.commands
    /\ perror' = r.error
    /\ pstatus' = IF r.error # "" THEN "threw" ELSE "parsing"

\* One loop iteration, consumeCommand_ having led to c, whose letter is in letters
IterationAt(c, letters) ==
    /\ c.error = ""
    /\ CommandCharOf(c) \in letters
    /\ SetLocals(LoopBodyAt(c))
    /\ lastChar' = CommandCharOf(c)
    /\ UNCHANGED <<inputString, pathString, pass, firstCommands>>
    /\ UNCHANGED fvars

\* The loop's condition holds: its body runs
InLoop ==
    /\ pstatus = "parsing"
    /\ index < Len(pathString)

StepM ==
    /\ InLoop
    /\ IterationAt(consumeCommand_(Locals), {"M", "m"})

StepC ==
    /\ InLoop
    /\ IterationAt(consumeCommand_(Locals), {"C", "c"})

StepS ==
    /\ InLoop
    /\ IterationAt(consumeCommand_(Locals), {"S", "s"})

StepQ ==
    /\ InLoop
    /\ IterationAt(consumeCommand_(Locals), {"Q", "q"})

StepT ==
    /\ InLoop
    /\ IterationAt(consumeCommand_(Locals), {"T", "t"})

StepL ==
    /\ InLoop
    /\ IterationAt(consumeCommand_(Locals), {"L", "l"})

StepH ==
    /\ InLoop
    /\ IterationAt(consumeCommand_(Locals), {"H", "h"})

StepV ==
    /\ InLoop
    /\ IterationAt(consumeCommand_(Locals), {"V", "v"})

StepA ==
    /\ InLoop
    /\ IterationAt(consumeCommand_(Locals), {"A", "a"})

StepZ ==
    /\ InLoop
    /\ IterationAt(consumeCommand_(Locals), {"Z", "z"})

\* A letter the switch has no case for: nothing but the letter is consumed
StepNoCase ==
    /\ InLoop
    /\ IterationAt(consumeCommand_(Locals), (LowerLetters \cup UpperLetters) \ CaseLetters)

\* consumeCommand_ throws 'Expected command'
ThrowExpectedCommand ==
    /\ pstatus = "parsing"
    /\ index < Len(pathString)
    /\ consumeCommand_(Locals).error # ""
    /\ SetLocals(consumeCommand_(Locals))
    /\ UNCHANGED <<inputString, pathString, lastChar, pass, firstCommands>>
    /\ UNCHANGED fvars

\* index >= pathString.length: return commands
Return ==
    /\ pstatus = "parsing"
    /\ index >= Len(pathString)
    /\ pstatus' = "returned"
    /\ UNCHANGED <<inputString, pathString, index, currentToken, currentPoint,
                   currentControlPoint, lastMovePoint, commands, lastChar, perror,
                   pass, firstCommands>>
    /\ UNCHANGED fvars

\* The caller serializes what the first call returned and parses that string
Reparse ==
    /\ pstatus = "returned"
    /\ pass = 1
    /\ pass' = 2
    /\ firstCommands' = commands
    /\ pathString' = commandsToString(commands)
    /\ index' = 0
    /\ currentToken' = "EOF"
    /\ currentPoint' = NoPoint
    /\ currentControlPoint' = NoPoint
    /\ lastMovePoint' = NoPoint
    /\ commands' = <<>>
    /\ lastChar' = ""
    /\ pstatus' = "parsing"
    /\ UNCHANGED <<inputString, perror>>
    /\ UNCHANGED fvars

\* The fixer is not running
FixerIdle ==
    /\ canConvert = {}
    /\ fromPath = <<>>
    /\ toPath = <<>>
    /\ subIdx = 0
    /\ numFromCmds = 0
    /\ numToCmds = 0
    /\ from = <<>>
    /\ to = <<>>
    /\ fromPaths = <<>>
    /\ alignmentInfos = <<>>
    /\ chosen = 0
    /\ alignmentInfo = <<>>
    /\ fromPathResult = <<>>
    /\ toPathResult = <<>>
    /\ result = <<>>
    /\ pc = "idle"
    /\ caller = ""
    /\ round = 0
    /\ firstResult = <<>>

InitParse ==
    /\ FixerIdle
    /\ inputString \in PathStrings
    /\ pathString = inputString
    /\ index = 0
    /\ currentToken = "EOF"
    /\ currentPoint = NoPoint
    /\ currentControlPoint = NoPoint
    /\ lastMovePoint = NoPoint
    /\ commands = <<>>
    /\ lastChar = ""
    /\ pstatus = "parsing"
    /\ perror = ""
    /\ pass = 1
    /\ firstCommands = <<>>

NextParse ==
    \/ StepM
    \/ StepC
    \/ StepS
    \/ StepQ
    \/ StepT
    \/ StepL
    \/ StepH
    \/ StepV
    \/ StepA
    \/ StepZ
    \/ StepNoCase
    \/ ThrowExpectedCommand
    \/ Return
    \/ Reparse

SpecParse == InitParse /\ [][NextParse]_vars

-----------------------------------------------------------------------------
(* Properties of the parser and the serializer *)

\* A call of parseCommands has ended, by a return or a throw
ParseEnded == pstatus \in {"returned", "threw"}

\* |a - b| <= 0.001, which no NaN satisfies
Within001(a, b) == ~IsNaN(a) /\ ~IsNaN(b) /\ Abs(a - b) <= 10 ^ (FixedDigits + 1 - 3)

\* Command d has the kind of command c and ends within 0.001 of its end
SameKindAndEnd(c, d) ==
    /\ c.svgChar = d.svgChar
    /\ Within001(EndOf(c)[1], EndOf(d)[1])
    /\ Within001(EndOf(c)[2], EndOf(d)[2])

\* C3: the round trip.  Whenever parseCommands accepted the input string, the
\* parse of commandsToString of its result returns too, with as many commands,
\* the i-th of the same kind and ending within 0.001 of the i-th of the first.
C3_RoundTrip ==
    (pass = 2 /\ ParseEnded) =>
        /\ pstatus = "returned"
        /\ Len(commands) = Len(firstCommands)
        /\ \A i \in 1..Len(commands) : SameKindAndEnd(firstCommands[i], commands[i])

\* C4: in every sequence parseCommands returns, a command that is not a Move
\* starts where the command before it ends (after a Close too).
C4_StartIsPreviousEnd ==
    (pass = 1 /\ pstatus = "returned") =>
        \A i \in 2..Len(commands) :
            commands[i].svgChar # "M" => StartOf(commands[i]) = EndOf(commands[i - 1])

\* The input starts with a lower-case 'm' that a coordinate pair follows
StartsWithRelativeMove ==
    /\ Len(inputString) >= 1
    /\ inputString[1] = "m"
    /\ consumePoint_([StartState(inputString) EXCEPT !.index = 1], FALSE).st.error = ""

\* The pair that follows the leading 'm', as absolute coordinates
LeadingPair == consumePoint_([StartState(inputString) EXCEPT !.index = 1], FALSE).pt

\* C8: a path string that starts with 'm' and a coordinate pair is accepted:
\* the move raises no error and the first command emitted is a Move to the
\* pair, taken as absolute coordinates.
C8_LeadingRelativeMoveAccepted ==
    (pass = 1 /\ StartsWithRelativeMove /\ lastChar # "") =>
        /\ perror # "Current point must be set for a relative command"
        /\ Len(commands) >= 1
        /\ commands[1] = MoveCommand(NoPoint, LeadingPair)

\* Characters that are neither letters nor the start of a value
Separators == {" ", ",", "\n"}

ValueChars == {DigitChars[i] : i \in 1..10} \cup {".", "-", "e"}

\* The offsets of s at which a character can be inserted without splitting a
\* value: the two ends, and every offset not between two characters of values
TokenBoundaries(s) ==
    {k \in 0..Len(s) :
        \/ k = 0
        \/ k = Len(s)
        \/ s[k] \notin ValueChars
        \/ s[k + 1] \notin ValueChars}

\* s with character c inserted at offset k
InsertAt(s, k, c) == SubSeq(s, 1, k) \o <<c>> \o SubSeq(s, k + 1, Len(s))

\* The parse r returns the commands cmds
ReturnsCommands(r, cmds) == r.error = "" /\ r.commands = cmds

\* C9: separators never make parseCommands throw.  If the input string parses
\* to at least one command, then with a separator inserted before the first
\* command, between two tokens or after the last command it parses to the same
\* commands.
C9_SeparatorsAreSkipped ==
    (pass = 1 /\ pstatus = "returned" /\ Len(commands) >= 1) =>
        \A k \in TokenBoundaries(inputString) : \A c \in Separators :
            ReturnsCommands(parseCommands(InsertAt(inputString, k, c)), commands)

\* The reflection of point cp through point p
ReflectThrough(cp, p) == Point(Add(p[1], Sub(p[1], cp[1])), Add(p[2], Sub(p[2], cp[2])))

\* The first control point the claim C10 gives segment seg, which follows prev
ClaimedCp1(prev, seg) ==
    IF prev.svgChar = "C"
    THEN ReflectThrough(prev.points[3], StartOf(seg))
    ELSE EndOf(seg)

\* C10: every segment an S/s command emits has as first control point the
\* reflection of the previous command's second control point through the
\* current point when the previous command is a Cubic, and its own end point
\* when the previous command is of any other kind.
C10_SmoothCubicControlPoint ==
    [][(lastChar' \in {"S", "s"} /\ pass' = pass /\ Len(commands') > Len(commands)) =>
          \A k \in (Len(commands) + 1)..Len(commands') :
              commands'[k].points[2] = ClaimedCp1(commands'[k - 1], commands'[k])]_vars


-----------------------------------------------------------------------------
(* The compatibility fixer (AutoAwesome.ts) and what it calls.              *)
(*                                                                         *)
(* A path is a sequence of subpaths, a subpath a sequence of commands, a    *)
(* command a record [svgChar, end, isSplit]; a command starts where the     *)
(* command before it ends.  subIdx and cmdIdx count from 0, as in the code. *)
(* Every point of the model lies on the x axis, so that distances are       *)
(* integers; scores are counted in 1/ScoreUnit.                            *)

Max(a, b) == IF a >= b THEN a ELSE b

Min(a, b) == IF a <= b THEN a ELSE b

\* _.clamp(number, lower, upper): first capped by upper, then raised to lower
Clamp(number, lower, upper) == Max(Min(number, upper), lower)

\* NeedlemanWunsch.MATCH
MATCH == 1

\* NeedlemanWunsch.MISMATCH
MISMATCH == -1

\* NeedlemanWunsch.INDEL, the gap penalty
INDEL == 0

\* A score s is held as the integer s * ScoreUnit: every distance up to 12
\* divides ScoreUnit, so 1 / distance is held exactly.
ScoreUnit == 27720

\* MathUtil.distance(p, q) of two points of the x axis
Distance(p, q) == Abs(p[1] - q[1])

\* path.getSubPath(subIdx).getCommands()
Commands(path, sub) == path[sub + 1]

\* subPath.isClosed(): the subpath ends with a Close
IsClosed(cmds) == Len(cmds) >= 2 /\ cmds[Len(cmds)].svgChar = "Z"

\* segs with its first count elements moved to the back
RotateLeft(segs, count) ==
    SubSeq(segs, count + 1, Len(segs)) \o SubSeq(segs, 1, count)

\* The segments of a subpath: one [svgChar, start, end, isSplit] per command
\* after the Move
Segments(cmds) ==
    [i \in 1..(Len(cmds) - 1) |->
        [svgChar |-> cmds[i + 1].svgChar, start |-> cmds[i].end,
         end |-> cmds[i + 1].end, isSplit |-> cmds[i + 1].isSplit]]

\* The kind of segment i of n once the segments are put in a new order: in a
\* closed subpath the last one is the Close and a Close elsewhere is a line
KindAt(svgChar, i, n, closed) ==
    IF closed /\ i = n THEN "Z"
    ELSE IF svgChar = "Z" THEN "L"
    ELSE svgChar

\* The subpath that starts with a Move to the start of the first segment and
\* runs through segs
FromSegments(segs, closed, move) ==
    IF Len(segs) = 0 THEN <<move>>
    ELSE <<[move EXCEPT !.end = segs[1].start]>>
         \o [i \in 1..Len(segs) |->
               [svgChar |-> KindAt(segs[i].svgChar, i, Len(segs), closed),
                end |-> segs[i].end, isSplit |-> segs[i].isSplit]]

\* Every segment run backwards, the last one first
ReversedSegments(segs) ==
    [i \in 1..Len(segs) |->
        [segs[Len(segs) + 1 - i] EXCEPT !.start = segs[Len(segs) + 1 - i].end,
                                        !.end = segs[Len(segs) + 1 - i].start]]

\* path.mutate().reverseSubPath(subIdx).build(), on the subpath's commands
ReverseCommands(cmds) ==
    FromSegments(ReversedSegments(Segments(cmds)), IsClosed(cmds), cmds[1])

\* path.mutate().shiftSubPathBack(subIdx, numShifts).build(), on the commands
\* of a closed subpath: the subpath starts numShifts points earlier
ShiftCommandsBack(cmds, numShifts) ==
    FromSegments(RotateLeft(Segments(cmds), (Len(cmds) - 1) - numShifts),
                 IsClosed(cmds), cmds[1])

\* path with the commands of subpath subIdx replaced by cmds
WithCommands(path, sub, cmds) == [path EXCEPT ![sub + 1] = cmds]

reverseSubPath(path, sub) ==
    WithCommands(path, sub, ReverseCommands(Commands(path, sub)))

shiftSubPathBack(path, sub, numShifts) ==
    WithCommands(path, sub, ShiftCommandsBack(Commands(path, sub), numShifts))


\* The point at fraction t = <<numerator, denominator>> of the way from p to q
Lerp(p, q, t) ==
    Point(p[1] + ((q[1] - p[1]) * t[1]) \div t[2],
          p[2] + ((q[2] - p[2]) * t[1]) \div t[2])

\* The commands that replace cmd, which starts at start, when it is split at
\* ts: one new command per t, then cmd itself
SplitPieces(start, cmd, ts) ==
    [i \in 1..Len(ts) |->
        [svgChar |-> IF cmd.svgChar = "Z" THEN "L" ELSE cmd.svgChar,
         end |-> Lerp(start, cmd.end, ts[i]), isSplit |-> TRUE]]
    \o <<cmd>>

\* mutator.splitCommand(subIdx, cmdIdx, ...ts), on the subpath's commands
SplitCommands(cmds, cmdIdx, ts) ==
    SubSeq(cmds, 1, cmdIdx)
    \o SplitPieces(cmds[cmdIdx].end, cmds[cmdIdx + 1], ts)
    \o SubSeq(cmds, cmdIdx + 2, Len(cmds))

\* The builder validates the index of the command it is to split
CanSplit(cmds, cmdIdx) == cmdIdx >= 1 /\ cmdIdx <= Len(cmds) - 1

\* mutator.convertCommand(subIdx, cmdIdx, svgChar), on the subpath's commands
ConvertCommands(cmds, cmdIdx, svgChar) ==
    [cmds EXCEPT ![cmdIdx + 1].svgChar = svgChar]

RECURSIVE InsertOp(_, _), sortPathOps(_)

\* op put into ops, which is sorted by descending cmdIdx, behind the ops of
\* the same cmdIdx
InsertOp(ops, op) ==
    IF Len(ops) = 0 THEN <<op>>
    ELSE IF ops[1].cmdIdx < op.cmdIdx THEN <<op>> \o ops
    ELSE <<ops[1]>> \o InsertOp(Tail(ops), op)

\* PathUtil.sortPathOps(ops): descending command index
sortPathOps(ops) ==
    IF Len(ops) = 0 THEN ops
    ELSE InsertOp(sortPathOps(SubSeq(ops, 1, Len(ops) - 1)), ops[Len(ops)])

-----------------------------------------------------------------------------
(* NeedlemanWunsch.align(listA, listB, scoringFunction).  An element of an  *)
(* aligned list is <<obj>>, or <<>> for a gap.  Cell (i, j) of the matrix   *)
(* is matrix[i + 1][j + 1].                                                 *)

RECURSIVE FillRow(_, _, _, _), FillMatrix(_, _), Backtrack(_, _, _, _, _, _, _, _)

Max3(a, b, c) == Max(a, Max(b, c))

\* The first row of the matrix: j gaps
FirstRow(n) == [j \in 1..(n + 1) |-> (j - 1) * INDEL]

\* Row i of the matrix from row i - 1; row holds the cells (i, 0..j-1)
FillRow(prev, scores, j, row) ==
    IF j > Len(scores) THEN row
    ELSE FillRow(prev, scores, j + 1,
                 Append(row, Max3(prev[j] + scores[j],
                                  row[j] + INDEL,
                                  prev[j + 1] + INDEL)))

\* matrix, which has the rows 0..i-1, with row i
AppendRow(matrix, scores, i) ==
    Append(matrix, FillRow(matrix[i], scores, 1, <<i * INDEL>>))

\* The matrix of the scores table, its rows 0..i
FillMatrix(table, i) ==
    IF i = 0 THEN <<FirstRow(Len(table[1]))>>
    ELSE AppendRow(FillMatrix(table, i - 1), table[i], i)

\* The walk back from cell (i, j): a match or mismatch first, then a gap in
\* listB, then a gap in listA
Backtrack(matrix, table, listA, listB, i, j, alignedA, alignedB) ==
    IF i = 0 /\ j = 0 THEN [from |-> alignedA, to |-> alignedB]
    ELSE IF i > 0 /\ j > 0
            /\ matrix[i + 1][j + 1] = matrix[i][j] + table[i][j]
    THEN Backtrack(matrix, table, listA, listB, i - 1, j - 1,
                   <<(<<listA[i]>>)>> \o alignedA, <<(<<listB[j]>>)>> \o alignedB)
    ELSE IF i > 0 /\ matrix[i + 1][j + 1] = matrix[i][j + 1] + INDEL
    THEN Backtrack(matrix, table, listA, listB, i - 1, j,
                   <<(<<listA[i]>>)>> \o alignedA, <<(<<>>)>> \o alignedB)
    ELSE Backtrack(matrix, table, listA, listB, i, j - 1,
                   <<(<<>>)>> \o alignedA, <<(<<listB[j]>>)>> \o alignedB)

\* The aligned lists with the score, the matrix's last cell
WithScore(aligned, score) ==
    [from |-> aligned.from, to |-> aligned.to, score |-> score]

AlignWith(matrix, table, listA, listB) ==
    WithScore(Backtrack(matrix, table, listA, listB, Len(listA), Len(listB), <<>>, <<>>),
              matrix[Len(listA) + 1][Len(listB) + 1])

\* table[i][j] is scoringFunction(listA[i], listB[j])
AlignTable(table, listA, listB) ==
    AlignWith(FillMatrix(table, Len(listA)), table, listA, listB)


-----------------------------------------------------------------------------
(* AutoAwesome.ts: autoFix, autoFixSubPath, autoConvert *)

\* cmd.canConvertTo(svgChar)
CanConvertTo(cmd, svgChar) == <<cmd.svgChar, svgChar>> \in canConvert

\* p and, when its subpath is closed, its shifts by 1 .. length - 2
ShiftedPaths(p, sub) ==
    <<p>> \o (IF IsClosed(Commands(p, sub))
              THEN [i \in 1..(Len(Commands(p, sub)) - 2) |-> shiftSubPathBack(p, sub, i)]
              ELSE <<>>)

\* FromPaths without the shifts of the path as it is
FromPathsShiftReversalOnly(fromP, sub) ==
    <<fromP>> \o ShiftedPaths(reverseSubPath(fromP, sub), sub)

\* const fromPaths = _.flatMap([from, reversed from], p => ...)
FromPaths(fromP, sub) ==
    ShiftedPaths(fromP, sub) \o ShiftedPaths(reverseSubPath(fromP, sub), sub)

getScoreFn(a, b) ==
    IF a.svgChar # b.svgChar /\ ~CanConvertTo(a, b.svgChar) /\ ~CanConvertTo(b, a.svgChar)
    THEN MISMATCH * ScoreUnit
    ELSE ScoreUnit \div Max(MATCH, Distance(a.end, b.end))

\* getScoreFn of every pair of a command of fromCmds and a command of toCmds
ScoreTable(fromCmds, toCmds) ==
    [i \in 1..Len(fromCmds) |-> [j \in 1..Len(toCmds) |-> getScoreFn(fromCmds[i], toCmds[j])]]

align(fromCmds, toCmds) == AlignTable(ScoreTable(fromCmds, toCmds), fromCmds, toCmds)

\* const alignmentInfos = fromPaths.map(generatedFromPath => ...)
AlignmentInfos(paths, toP, sub) ==
    [i \in 1..Len(paths) |->
        [generatedFromPath |-> paths[i],
         alignment |-> align(Commands(paths[i], sub), Commands(toP, sub))]]

\* alignmentInfos.reduce((prev, curr) => prevScore > currScore ? prev : curr):
\* the position that the reduction holds after the positions below i
RECURSIVE Reduce(_, _, _)

Reduce(infos, i, prev) ==
    IF i > Len(infos) THEN prev
    ELSE Reduce(infos, i + 1,
                IF infos[prev].alignment.score > infos[i].alignment.score
                THEN prev ELSE i)

RECURSIVE CmdInfosFrom(_, _, _, _)

\* nextCmdIdx after the alignment
NextCmdIdx(alignment, nextCmdIdx) ==
    IF alignment = <<>> THEN nextCmdIdx ELSE nextCmdIdx + 1

CmdInfosFrom(alignments, i, nextCmdIdx, infos) ==
    IF i > Len(alignments) THEN infos
    ELSE CmdInfosFrom(alignments, i + 1, NextCmdIdx(alignments[i], nextCmdIdx),
             Append(infos,
                    [isGap |-> alignments[i] = <<>>,
                     isNextGap |-> i + 1 <= Len(alignments) /\ alignments[i + 1] = <<>>,
                     nextCmdIdx |-> NextCmdIdx(alignments[i], nextCmdIdx)]))

processAlignmentsFn(alignments) == CmdInfosFrom(alignments, 1, 0, <<>>)

RECURSIVE GapStreaksFrom(_, _, _, _)

GapStreaksFrom(cmdInfos, i, gapStreaks, currentGapStreak) ==
    IF i > Len(cmdInfos) THEN gapStreaks
    ELSE IF ~cmdInfos[i].isGap
    THEN GapStreaksFrom(cmdInfos, i + 1, gapStreaks, currentGapStreak)
    ELSE IF ~cmdInfos[i].isNextGap
    THEN GapStreaksFrom(cmdInfos, i + 1,
                        Append(gapStreaks, Append(currentGapStreak, cmdInfos[i])), <<>>)
    ELSE GapStreaksFrom(cmdInfos, i + 1, gapStreaks, Append(currentGapStreak, cmdInfos[i]))

createGapStreaksFn(cmdInfos) == GapStreaksFrom(cmdInfos, 1, <<>>, <<>>)

\* The gap groups of an aligned list
GapGroups(alignments) == createGapStreaksFn(processAlignmentsFn(alignments))

\* SplitOp with one t too many
SplitOpOneMore(gapGroup, sub, numPaths) ==
    [subIdx |-> sub,
     cmdIdx |-> Clamp(gapGroup[Len(gapGroup)].nextCmdIdx, 1, numPaths - 1),
     ts |-> [gapIdx \in 1..(Len(gapGroup) + 1) |-> <<gapIdx, Len(gapGroup) + 2>>]]

\* The split of one gap group
SplitOp(gapGroup, sub, numPaths) ==
    [subIdx |-> sub,
     cmdIdx |-> Clamp(gapGroup[Len(gapGroup)].nextCmdIdx, 1, numPaths - 1),
     ts |-> [gapIdx \in 1..Len(gapGroup) |-> <<gapIdx, Len(gapGroup) + 1>>]]

\* const splitOps: one op per gap group, the last group first
SplitOps(gapGroups, sub, numPaths) ==
    [k \in 1..Len(gapGroups) |->
        SplitOp(gapGroups[Len(gapGroups) + 1 - k], sub, numPaths)]

RECURSIVE ApplyOps(_, _, _)

\* for (const {cmdIdx, ts} of splitOps) mutator.splitCommand(subIdx, cmdIdx, ...ts)
ApplyOps(cmds, ops, k) ==
    IF k > Len(ops) THEN [threw |-> FALSE, cmds |-> cmds]
    ELSE IF ~CanSplit(cmds, ops[k].cmdIdx) THEN [threw |-> TRUE, cmds |-> cmds]
    ELSE ApplyOps(SplitCommands(cmds, ops[k].cmdIdx, ops[k].ts), ops, k + 1)

\* A path operation's outcome r, in path
InPath(path, sub, r) == [threw |-> r.threw, path |-> WithCommands(path, sub, r.cmds)]

applySplitsFn(path, sub, gapGroups) ==
    InPath(path, sub,
           ApplyOps(Commands(path, sub),
                    sortPathOps(SplitOps(gapGroups, sub, Len(Commands(path, sub)))), 1))

RECURSIVE ConvertFromSideOnly(_, _, _)

\* ConvertFrom without its else-if branch: the to side is never converted
ConvertFromSideOnly(fromCmds, toCmds, cmdIdx) ==
    IF cmdIdx >= Len(fromCmds) THEN [threw |-> FALSE, from |-> fromCmds, to |-> toCmds]
    ELSE IF cmdIdx >= Len(toCmds) THEN [threw |-> TRUE, from |-> fromCmds, to |-> toCmds]
    ELSE IF fromCmds[cmdIdx + 1].svgChar = toCmds[cmdIdx + 1].svgChar
    THEN ConvertFromSideOnly(fromCmds, toCmds, cmdIdx + 1)
    ELSE IF CanConvertTo(fromCmds[cmdIdx + 1], toCmds[cmdIdx + 1].svgChar)
    THEN ConvertFromSideOnly(ConvertCommands(fromCmds, cmdIdx, toCmds[cmdIdx + 1].svgChar),
                             toCmds, cmdIdx + 1)
    ELSE ConvertFromSideOnly(fromCmds, toCmds, cmdIdx + 1)

RECURSIVE ConvertFrom(_, _, _)

\* from.getSubPath(subIdx).getCommands().forEach((fromCmd, cmdIdx) => ...)
ConvertFrom(fromCmds, toCmds, cmdIdx) ==
    IF cmdIdx >= Len(fromCmds) THEN [threw |-> FALSE, from |-> fromCmds, to |-> toCmds]
    ELSE IF cmdIdx >= Len(toCmds) THEN [threw |-> TRUE, from |-> fromCmds, to |-> toCmds]
    ELSE IF fromCmds[cmdIdx + 1].svgChar = toCmds[cmdIdx + 1].svgChar
    THEN ConvertFrom(fromCmds, toCmds, cmdIdx + 1)
    ELSE IF CanConvertTo(fromCmds[cmdIdx + 1], toCmds[cmdIdx + 1].svgChar)
    THEN ConvertFrom(ConvertCommands(fromCmds, cmdIdx, toCmds[cmdIdx + 1].svgChar),
                     toCmds, cmdIdx + 1)
    ELSE IF CanConvertTo(toCmds[cmdIdx + 1], fromCmds[cmdIdx + 1].svgChar)
    THEN ConvertFrom(fromCmds,
                     ConvertCommands(toCmds, cmdIdx, fromCmds[cmdIdx + 1].svgChar),
                     cmdIdx + 1)
    ELSE ConvertFrom(fromCmds, toCmds, cmdIdx + 1)

\* The outcome r of the conversions, in the two paths
InPaths(fromP, toP, sub, r) ==
    [threw |-> r.threw,
     from |-> WithCommands(fromP, sub, r.from),
     to |-> WithCommands(toP, sub, r.to)]

autoConvert(sub, fromP, toP) ==
    InPaths(fromP, toP, sub, ConvertFrom(Commands(fromP, sub), Commands(toP, sub), 0))


-----------------------------------------------------------------------------
(* The paths handed to the fixer: at most MaxCmds commands in all, or one   *)
(* closed subpath of MaxCmds + 1 commands; every subpath starts at the      *)
(* origin and every point is one of Coords on the x axis.                   *)

Coords == {0, MaxCoord}

SegmentKinds == {"L", "C"}

PathMove(x) == [svgChar |-> "M", end |-> Point(x, 0), isSplit |-> FALSE]

PathClose(x) == [svgChar |-> "Z", end |-> Point(x, 0), isSplit |-> FALSE]

PathSegments ==
    {[svgChar |-> k, end |-> Point(x, 0), isSplit |-> FALSE] : k \in SegmentKinds, x \in Coords}

RECURSIVE SeqsOf(_, _)

\* The sequences of n elements of S
SeqsOf(S, n) ==
    IF n = 0 THEN {<<>>}
    ELSE {Append(q, e) : q \in SeqsOf(S, n - 1), e \in S}

\* The open subpaths of n commands
OpenSubPaths(n) ==
    {<<PathMove(0)>> \o q : q \in SeqsOf(PathSegments, n - 1)}

\* The closed subpaths of n commands
ClosedSubPaths(n) ==
    IF n < 2 THEN {}
    ELSE {<<PathMove(0)>> \o q \o <<PathClose(0)>> : q \in SeqsOf(PathSegments, n - 2)}

SubPathsOf(n) == OpenSubPaths(n) \cup ClosedSubPaths(n)

RECURSIVE PathsOf(_)

\* The paths of n commands in all
PathsOf(n) ==
    IF n = 0 THEN {<<>>}
    ELSE UNION {{<<u>> \o rest : u \in SubPathsOf(k), rest \in PathsOf(n - k)} : k \in 1..n}

Paths ==
    UNION {PathsOf(n) : n \in 1..MaxCmds}
    \cup {<<u>> : u \in ClosedSubPaths(MaxCmds + 1)}

\* The convertibility tables: none at all, and lines re-expressed as curves
NothingConverts == {}

LinesConvert == {<<"L", "C">>, <<"Z", "L">>, <<"Z", "C">>}

Tables == {NothingConverts, LinesConvert}

-----------------------------------------------------------------------------
(* The fixer as a state machine *)

\* const numSubPaths
NumSubPaths == Min(Len(fromPath), Len(toPath))

\* for (...; subIdx < numSubPaths; ...): the arguments of autoFixSubPath
AutoFixIteration ==
    /\ pc = "loop"
    /\ subIdx < NumSubPaths
    /\ numFromCmds' = Len(Commands(fromPath, subIdx))
    /\ numToCmds' = Len(Commands(toPath, subIdx))
    /\ from' = IF Len(Commands(fromPath, subIdx)) >= Len(Commands(toPath, subIdx))
               THEN fromPath ELSE toPath
    /\ to' = IF Len(Commands(fromPath, subIdx)) >= Len(Commands(toPath, subIdx))
             THEN toPath ELSE fromPath
    /\ round' = round + 1
    /\ pc' = "fromPaths"
    /\ UNCHANGED <<canConvert, fromPath, toPath, subIdx, fromPaths, alignmentInfos,
                   chosen, alignmentInfo, fromPathResult, toPathResult, result,
                   caller, firstResult>>
    /\ UNCHANGED pvars

GenerateFromPaths ==
    /\ pc = "fromPaths"
    /\ fromPaths' = FromPaths(from, subIdx)
    /\ pc' = "align"
    /\ UNCHANGED <<canConvert, fromPath, toPath, subIdx, numFromCmds, numToCmds, from,
                   to, alignmentInfos, chosen, alignmentInfo, fromPathResult,
                   toPathResult, result, caller, round, firstResult>>
    /\ UNCHANGED pvars

AlignFromPaths ==
    /\ pc = "align"
    /\ alignmentInfos' = AlignmentInfos(fromPaths, to, subIdx)
    /\ pc' = "reduce"
    /\ UNCHANGED <<canConvert, fromPath, toPath, subIdx, numFromCmds, numToCmds, from,
                   to, fromPaths, chosen, alignmentInfo, fromPathResult,
                   toPathResult, result, caller, round, firstResult>>
    /\ UNCHANGED pvars

SelectAlignment ==
    /\ pc = "reduce"
    /\ chosen' = Reduce(alignmentInfos, 2, 1) - 1
    /\ alignmentInfo' = alignmentInfos[Reduce(alignmentInfos, 2, 1)]
    /\ pc' = "split"
    /\ UNCHANGED <<canConvert, fromPath, toPath, subIdx, numFromCmds, numToCmds, from,
                   to, fromPaths, alignmentInfos, fromPathResult,
                   toPathResult, result, caller, round, firstResult>>
    /\ UNCHANGED pvars

\* The two applySplitsFn calls, r and q being their outcomes
SplitsApplied(r, q) ==
    /\ fromPathResult' = r.path
    /\ toPathResult' = q.path
    /\ pc' = IF r.threw \/ q.threw THEN "threw" ELSE "convert"

ApplySplits ==
    /\ pc = "split"
    /\ SplitsApplied(applySplitsFn(alignmentInfo.generatedFromPath, subIdx,
                                   GapGroups(alignmentInfo.alignment.from)),
                     applySplitsFn(to, subIdx, GapGroups(alignmentInfo.alignment.to)))
    /\ UNCHANGED <<canConvert, fromPath, toPath, subIdx, numFromCmds, numToCmds, from,
                   to, fromPaths, alignmentInfos, chosen, alignmentInfo, result,
                   caller, round, firstResult>>
    /\ UNCHANGED pvars

\* return autoConvert(...), r being its outcome
Converted(r) ==
    /\ result' = [from |-> r.from, to |-> r.to]
    /\ pc' = IF r.threw THEN "threw" ELSE "returned"

AutoConvert ==
    /\ pc = "convert"
    /\ Converted(autoConvert(subIdx, fromPathResult, toPathResult))
    /\ UNCHANGED <<canConvert, fromPath, toPath, subIdx, numFromCmds, numToCmds, from,
                   to, fromPaths, alignmentInfos, chosen, alignmentInfo,
                   fromPathResult, toPathResult, caller, round, firstResult>>
    /\ UNCHANGED pvars

\* autoFix takes the two paths back, each on its own side, and goes on
AutoFixAssign ==
    /\ pc = "returned"
    /\ caller = "autoFix"
    /\ fromPath' = IF numFromCmds >= numToCmds THEN result.from ELSE result.to
    /\ toPath' = IF numFromCmds >= numToCmds THEN result.to ELSE result.from
    /\ subIdx' = subIdx + 1
    /\ pc' = "loop"
    /\ UNCHANGED <<canConvert, numFromCmds, numToCmds, from, to, fromPaths,
                   alignmentInfos, chosen, alignmentInfo, fromPathResult,
                   toPathResult, result, caller, round, firstResult>>
    /\ UNCHANGED pvars

\* The loop is over: return {from: fromPath, to: toPath}
AutoFixReturn ==
    /\ pc = "loop"
    /\ subIdx >= NumSubPaths
    /\ pc' = "done"
    /\ UNCHANGED <<canConvert, fromPath, toPath, subIdx, numFromCmds, numToCmds, from,
                   to, fromPaths, alignmentInfos, chosen, alignmentInfo,
                   fromPathResult, toPathResult, result, caller, round, firstResult>>
    /\ UNCHANGED pvars

\* autoFixSubPath is called again, on what it returned
CallAgain ==
    /\ pc = "returned"
    /\ caller = "twice"
    /\ round = 1
    /\ firstResult' = result
    /\ from' = result.from
    /\ to' = result.to
    /\ round' = 2
    /\ pc' = "fromPaths"
    /\ UNCHANGED <<canConvert, fromPath, toPath, subIdx, numFromCmds, numToCmds,
                   fromPaths, alignmentInfos, chosen, alignmentInfo, fromPathResult,
                   toPathResult, result, caller>>
    /\ UNCHANGED pvars

\* No parseCommands call is running
ParserIdle ==
    /\ inputString = <<>>
    /\ pathString = <<>>
    /\ index = 0
    /\ currentToken = "EOF"
    /\ currentPoint = NoPoint
    /\ currentControlPoint = NoPoint
    /\ lastMovePoint = NoPoint
    /\ commands = <<>>
    /\ lastChar = ""
    /\ pstatus = "idle"
    /\ perror = ""
    /\ pass = 0
    /\ firstCommands = <<>>

\* The locals of the fixer before it has set them
LocalsUnset ==
    /\ numFromCmds = 0
    /\ numToCmds = 0
    /\ fromPaths = <<>>
    /\ alignmentInfos = <<>>
    /\ chosen = 0
    /\ alignmentInfo = <<>>
    /\ fromPathResult = <<>>
    /\ toPathResult = <<>>
    /\ result = <<>>
    /\ firstResult = <<>>

\* autoFix(fromPath, toPath)
InitFix ==
    /\ ParserIdle
    /\ LocalsUnset
    /\ canConvert \in Tables
    /\ fromPath \in Paths
    /\ toPath \in Paths
    /\ subIdx = 0
    /\ from = <<>>
    /\ to = <<>>
    /\ pc = "loop"
    /\ caller = "autoFix"
    /\ round = 0

NextFix ==
    \/ AutoFixIteration
    \/ GenerateFromPaths
    \/ AlignFromPaths
    \/ SelectAlignment
    \/ ApplySplits
    \/ AutoConvert
    \/ AutoFixAssign
    \/ AutoFixReturn

SpecFix == InitFix /\ [][NextFix]_vars


\* autoFixSubPath(subIdx, from, to), to be called again on what it returns
InitTwice ==
    /\ ParserIdle
    /\ LocalsUnset
    /\ canConvert \in Tables
    /\ fromPath = <<>>
    /\ toPath = <<>>
    /\ from \in Paths
    /\ to \in Paths
    /\ subIdx \in 0..(Min(Len(from), Len(to)) - 1)
    /\ Len(Commands(from, subIdx)) >= Len(Commands(to, subIdx))
    /\ pc = "fromPaths"
    /\ caller = "twice"
    /\ round = 1

NextTwice ==
    \/ GenerateFromPaths
    \/ AlignFromPaths
    \/ SelectAlignment
    \/ ApplySplits
    \/ AutoConvert
    \/ CallAgain

SpecTwice == InitTwice /\ [][NextTwice]_vars

-----------------------------------------------------------------------------
(* Properties of the fixer *)

\* The kinds of the commands of a subpath, in order
Kinds(cmds) == [i \in 1..Len(cmds) |-> cmds[i].svgChar]

\* The end points of the commands of a subpath, in order
Ends(cmds) == [i \in 1..Len(cmds) |-> cmds[i].end]

\* The elements of a sequence
Range(q) == {q[i] : i \in 1..Len(q)}

\* autoFixSubPath has returned
SubPathFixed == pc = "returned"

\* C1: after autoFixSubPath(subIdx, from, to) the two returned paths have the
\* same sequence of command kinds at subpath subIdx, whatever the
\* convertibility table is.
C1_SameKinds ==
    SubPathFixed =>
        Kinds(Commands(result.from, subIdx)) = Kinds(Commands(result.to, subIdx))

\* Neither command can be converted to the other's kind
Inconvertible(a, b) ==
    /\ ~CanConvertTo(a, b.svgChar)
    /\ ~CanConvertTo(b, a.svgChar)

\* C1, amended: after autoFixSubPath the two returned paths have the same
\* number of commands at subpath subIdx, and two commands at the same position
\* have the same kind unless neither can be converted to the other's kind.
C1_SameKindsUnlessInconvertible ==
    SubPathFixed =>
        /\ Len(Commands(result.from, subIdx)) = Len(Commands(result.to, subIdx))
        /\ \A i \in 1..Len(Commands(result.from, subIdx)) :
              \/ Commands(result.from, subIdx)[i].svgChar
                     = Commands(result.to, subIdx)[i].svgChar
              \/ Inconvertible(Commands(result.from, subIdx)[i],
                               Commands(result.to, subIdx)[i])

\* autoFixSubPath has returned, having converted a command of each side
C1_Witness ==
    /\ SubPathFixed
    /\ Kinds(Commands(result.from, subIdx)) # Kinds(Commands(fromPathResult, subIdx))
    /\ Kinds(Commands(result.to, subIdx)) # Kinds(Commands(toPathResult, subIdx))

\* C2: after autoFix, for every subIdx below the smaller subpath count, fromPath
\* and toPath have the same number of commands in subpath subIdx.
C2_SameCounts ==
    pc = "done" =>
        \A s \in 0..(NumSubPaths - 1) :
            Len(Commands(fromPath, s)) = Len(Commands(toPath, s))

\* Some command of the subpath came out of a split
HasSplit(cmds) == \E i \in 1..Len(cmds) : cmds[i].isSplit

\* autoFix has returned after two subpaths, having split commands of both paths
C2_Witness ==
    /\ pc = "done"
    /\ round = 2
    /\ \E s \in 0..(NumSubPaths - 1) : HasSplit(Commands(fromPath, s))
    /\ \E s \in 0..(NumSubPaths - 1) : HasSplit(Commands(toPath, s))

\* The highest score of the alignments
BestScore(infos) ==
    CHOOSE m \in {infos[i].alignment.score : i \in 1..Len(infos)} :
        \A i \in 1..Len(infos) : infos[i].alignment.score <= m

\* The first position (from 0) of an alignment of the highest score
FirstBest(infos) ==
    CHOOSE i \in 1..Len(infos) :
        /\ infos[i].alignment.score = BestScore(infos)
        /\ \A j \in 1..(i - 1) : infos[j].alignment.score < BestScore(infos)

\* C5: the alignment selected has the highest score, and among the alignments
\* of the highest score it is the one generated first.
C5_FirstBestWins ==
    pc = "split" =>
        /\ alignmentInfo.alignment.score = BestScore(alignmentInfos)
        /\ alignmentInfo.generatedFromPath
               = alignmentInfos[FirstBest(alignmentInfos)].generatedFromPath

\* The shifts by 1 .. length - 2 of a path whose subpath is closed
Rotations(p, sub) ==
    IF IsClosed(Commands(p, sub))
    THEN {shiftSubPathBack(p, sub, i) : i \in 1..(Len(Commands(p, sub)) - 2)}
    ELSE {}

\* C6: the candidates are the original and its reversal and, when the subpath
\* is closed, the rotations of the reversal: no rotation of the original.
C6_CandidatesAsClaimed ==
    pc = "align" =>
        Range(fromPaths)
            = {from, reverseSubPath(from, subIdx)}
              \cup Rotations(reverseSubPath(from, subIdx), subIdx)

\* The number of candidates one of the two orientations gives
PerOrientation(cmds) == IF IsClosed(cmds) THEN Len(cmds) - 1 ELSE 1

\* C6, amended: the candidates are the original, then (closed subpath) its
\* rotations by 1 .. length - 2, then the reversal, then (closed subpath) the
\* reversal's rotations by 1 .. length - 2.
C6_CandidatesOfBothOrientations ==
    pc = "align" =>
        /\ Len(fromPaths) = 2 * PerOrientation(Commands(from, subIdx))
        /\ fromPaths[1] = from
        /\ fromPaths[PerOrientation(Commands(from, subIdx)) + 1]
               = reverseSubPath(from, subIdx)
        /\ \A i \in 1..(PerOrientation(Commands(from, subIdx)) - 1) :
              /\ fromPaths[1 + i] = shiftSubPathBack(from, subIdx, i)
              /\ fromPaths[PerOrientation(Commands(from, subIdx)) + 1 + i]
                     = shiftSubPathBack(reverseSubPath(from, subIdx), subIdx, i)

\* The candidates of a closed subpath of three commands or more are generated
C6_Witness ==
    /\ pc = "align"
    /\ IsClosed(Commands(from, subIdx))
    /\ Len(Commands(from, subIdx)) >= 3
    /\ Len(fromPaths) >= 4

\* The same commands: the same kinds and the same points
SameCommands(p, q) ==
    /\ Len(p) = Len(q)
    /\ \A s \in 1..Len(p) : Kinds(p[s]) = Kinds(q[s]) /\ Ends(p[s]) = Ends(q[s])

\* C7: autoFixSubPath applied to what it returned returns the same two paths.
C7_Idempotent ==
    (caller = "twice" /\ round = 2 /\ pc \in {"returned", "threw"}) =>
        /\ pc = "returned"
        /\ SameCommands(result.from, firstResult.from)
        /\ SameCommands(result.to, firstResult.to)


\* applySplitsFn has run for both sides
SplitsDone == pc \in {"convert", "threw"}

\* The split operations applySplitsFn issues for a side: its aligned list and
\* the path it splits
IssuedSplitOps(alignments, path) ==
    sortPathOps(SplitOps(GapGroups(alignments), subIdx, Len(Commands(path, subIdx))))

\* The number of maximal gap streaks of an aligned list
NumStreaks(alignments) ==
    Cardinality({i \in 1..Len(alignments) :
                    /\ alignments[i] = <<>>
                    /\ (i = Len(alignments) \/ alignments[i + 1] # <<>>)})

\* The fractions i/(k+1), i = 1..k, and nothing else
EvenFractions(ts) == \A i \in 1..Len(ts) : ts[i] = <<i, Len(ts) + 1>>

\* One op per streak, every index in 1 .. count - 1, the indices strictly
\* descending (so pairwise distinct)
OpsAsClaimed(ops, alignments, count) ==
    /\ Len(ops) = NumStreaks(alignments)
    /\ \A k \in 1..Len(ops) :
          /\ ops[k].cmdIdx >= 1
          /\ ops[k].cmdIdx <= count - 1
          /\ EvenFractions(ops[k].ts)
    /\ \A k \in 1..(Len(ops) - 1) : ops[k].cmdIdx > ops[k + 1].cmdIdx

\* C11: on either side the split operations that applySplitsFn issues for a
\* subpath of count >= 2 commands, one per maximal gap streak with the fractions
\* i/(k+1), have command indices within 1 .. count - 1 that are pairwise
\* distinct and strictly descending.
C11_SplitOpsDistinctDescending ==
    (SplitsDone /\ Len(Commands(to, subIdx)) >= 2) =>
        /\ OpsAsClaimed(IssuedSplitOps(alignmentInfo.alignment.from,
                                       alignmentInfo.generatedFromPath),
                        alignmentInfo.alignment.from,
                        Len(Commands(alignmentInfo.generatedFromPath, subIdx)))
        /\ OpsAsClaimed(IssuedSplitOps(alignmentInfo.alignment.to, to),
                        alignmentInfo.alignment.to,
                        Len(Commands(to, subIdx)))

====
